---- MODULE Spec2Model ----
(***************************************************************************)
(* Verification model of the device-log relay sources:                     *)
(*   src/pm.ts             iOS relay   (idevicesyslog child process)       *)
(*   src/unnamed/part_002  Android relay (adbkit logcat reader)            *)
(*   src/abcd.txt          RingBuffer and IOSLogStreamer                   *)
(*   src/abc.txt           PortManager                                     *)
(* The two relays share their handlers almost line for line; the variable  *)
(* `variant` selects which of the two servers a behaviour is a run of.     *)
(***************************************************************************)
EXTENDS Integers, Sequences, FiniteSets, TLC

\* ------------------------------------------------------------------ bounds
\* Inputs of one behaviour: the log lines and the error stream chunks the
\* upstream processes emit plus the clear requests the consumers send.
MaxInputs == 3
\* Largest ring buffer capacity and number of pushes tried on it.
MaxCapacity == 3
MaxPushes == 5
\* startLogs / stopLogs calls of one behaviour.
MaxCalls == 5
\* getFreePorts / releasePorts calls of one behaviour.
MaxOperations == 3
\* Characters the child process writes to its output in one behaviour.
MaxStream == 4
\* FileChunkUploader: chunks of a file, user actions and failed requests of
\* one behaviour.
MaxChunks == 2
MaxClicks == 4
MaxFailures == 1
\* GoIosWrapper: operations called in one behaviour.
MaxTunnelCalls == 3

\* Program constants, scaled down (1000 lines, 5e6 bytes in the source).
LOG_BUFFER_SIZE == 2
MAX_WS_BUFFERED == 1
\* PortManager options, scaled down (1024, 65535 and 1000 by default).
minPort == 1
maxPort == 3
maxAttempts == 4

\* The WebSocket connections of one behaviour and the device ids they ask for.
Sockets == {"w1", "w2"}
SocketOrder == <<"w1", "w2">>
Devices == {"d1", "d2"}
\* the device two consumers share
SharedDevice == "d1"
Items == {"a", "b"}
Udids == {"u1"}
Variants == {"ios", "adb"}

\* One session object is created per connection at most.
SessionIds == 1..Cardinality(Sockets)
NoSession == 0

VARIABLES
    variant,        \* "ios": src/pm.ts, "adb": src/unnamed/part_002
    udidOf,         \* the device id in each connection's URL
    devices,        \* the registry: device id -> session object (or NoSession)
    sess,           \* heap of DeviceState objects, in creation order
    wsPc,           \* where each connection's 'connection' handler stands
    wsOpen,         \* readyState === OPEN
    wsState,        \* the `state` captured by a connection's handlers
    bufferedAmount, \* ws.bufferedAmount
    inbox,          \* messages each consumer was sent, in order
    nLines,         \* lines emitted so far (the n-th line is the number n)
    nClears         \* clear requests sent so far

relayVars == <<variant, udidOf, devices, sess, wsPc, wsOpen, wsState,
               bufferedAmount, inbox, nLines, nClears>>

\* RingBuffer<T> of src/abcd.txt, next to the push/shift array of the relays
VARIABLES
    capacity,       \* RingBuffer.capacity
    buf,            \* RingBuffer.buf, indexed from 0
    head,           \* RingBuffer.head
    size,           \* RingBuffer.size
    arrayBuffer,    \* a relay's state.buffer fed the same items
    pushed          \* every item pushed so far, in push order

ringVars == <<capacity, buf, head, size, arrayBuffer, pushed>>

\* IOSLogStreamer of src/abcd.txt
VARIABLES
    sessions,       \* this.sessions: udid -> Session object (or NoSession)
    heap,           \* the Session objects, in creation order
    emitted,        \* the events emitted to the listeners, in order
    lastCall        \* the latest startLogs / stopLogs call and how it ended

streamerVars == <<sessions, heap, emitted, lastCall>>

\* PortManager of src/abc.txt
VARIABLES
    reservedPorts,  \* this.reservedPorts
    operations,     \* the operations chained on this.operationQueue, in order
    portLog         \* what the calls returned and released so far, in order

portVars == <<reservedPorts, operations, portLog>>

\* the stdout listener of IOSLogStreamer.startLogs (src/abcd.txt)
VARIABLES
    written,        \* the bytes the child process writes to its output
    unread,         \* the bytes of it not yet delivered in a 'data' chunk
    remainder,      \* session.remainder
    logged,         \* the lines pushed, written and emitted, in order
    closed          \* the 'close' event of the child has been handled

splitterVars == <<written, unread, remainder, logged, closed>>

\* FileChunkUploader of src/index.html
VARIABLES
    file,               \* how many files have been selected; the last is this.file
    chunks,             \* this.chunks: the status of each chunk
    currentChunkIndex,  \* this.currentChunkIndex
    uploadedChunks,     \* this.uploadedChunks
    isPaused,           \* this.isPaused
    isCancelled,        \* this.isCancelled
    disabled,           \* the disabled attribute of the buttons and the input
    uploadStatus,       \* what updateStatus wrote last
    chains,             \* the uploadNextChunk calls awaiting a fetch or a delay
    successes,          \* history: successful requests per chunk since Start
                        \* (empty: the file has not been started yet)
    clicks,             \* history: user actions so far
    failures            \* history: failed requests so far

uploaderVars == <<file, chunks, currentChunkIndex, uploadedChunks, isPaused,
                  isCancelled, disabled, uploadStatus, chains, successes,
                  clicks, failures>>

\* GoIosWrapper of src/abcd.txt
VARIABLES
    tunnelStarted,      \* this.tunnelStarted
    tunnelProcess,      \* this.tunnelProcess: index in tunnels, or NoTunnel
    tunnels,            \* the tunnel processes spawned: "running" or "killed"
    calls               \* the public operations called, in order

tunnelVars == <<tunnelStarted, tunnelProcess, tunnels, calls>>

vars == <<relayVars, ringVars, streamerVars, portVars, splitterVars,
          uploaderVars, tunnelVars>>

\* ---------------------------------------------------------------- messages
BatchMsg(lines, isBacklog) == [ev |-> "batch", lines |-> lines, backlog |-> isBacklog]
ErrorMsg == [ev |-> "error", lines |-> <<>>, backlog |-> FALSE]
StopMsg == [ev |-> "stop", lines |-> <<>>, backlog |-> FALSE]
ClearedMsg == [ev |-> "cleared", lines |-> <<>>, backlog |-> FALSE]

\* the number of messages of one kind in a consumer's inbox
Count(box, ev) == Cardinality({i \in 1..Len(box) : box[i].ev = ev})

\* ws.send(m) for every socket of W; a socket that is not open gets nothing.
SendTo(box, W, m) ==
    [w \in Sockets |-> IF w \in W /\ wsOpen[w] THEN Append(box[w], m) ELSE box[w]]

\* ------------------------------------------------------------ DeviceState
\* `arrived` and `clearedAt` are history: every line the session received, and
\* how many had arrived at its last clear request. `stderr` counts the chunks
\* the child process wrote to its error stream. `drained` is history too: the
\* batches the timer took from the pending queue, one after the other.
NewState(d, up, timer) ==
    [udid |-> d, up |-> up, errored |-> FALSE, rl |-> TRUE,
     buffer |-> <<>>, pending |-> <<>>, sockets |-> {}, batchTimer |-> timer,
     arrived |-> <<>>, clearedAt |-> 0, stderr |-> 0, drained |-> <<>>]

\* The inputs so far: lines, clear requests and error stream chunks.
StderrChunks ==
    LET sum[i \in 0..Len(sess)] == IF i = 0 THEN 0 ELSE sum[i - 1] + sess[i].stderr
    IN sum[Len(sess)]
Inputs == nLines + nClears + StderrChunks

DevicesHasNever(d) == FALSE

\* if (devices.has(udid)) return;
DevicesHas(d) == devices[d] # NoSession

BufferPushNoShift(buffer, line) == Append(buffer, line)

BufferPushDropsNewest(buffer, line) ==
    IF Len(buffer) >= LOG_BUFFER_SIZE THEN buffer ELSE Append(buffer, line)

\* state.buffer.push(line); if (state.buffer.length > LOG_BUFFER_SIZE) state.buffer.shift()
BufferPush(buffer, line) ==
    LET b == Append(buffer, line)
    IN IF Len(b) > LOG_BUFFER_SIZE THEN Tail(b) ELSE b

BatchRecipientsBlocking(s) ==
    IF \E w \in sess[s].sockets : bufferedAmount[w] >= MAX_WS_BUFFERED
    THEN {}
    ELSE {w \in sess[s].sockets : wsOpen[w]}

BatchRecipientsAll(s) == {w \in sess[s].sockets : wsOpen[w]}

\* the sockets a batch tick sends to
BatchRecipients(s) ==
    {w \in sess[s].sockets : wsOpen[w] /\ bufferedAmount[w] < MAX_WS_BUFFERED}

DevicesGetOldest(dv, d) == IF sess # <<>> THEN 1 ELSE dv[d]

\* devices.get(udid) on the registry dv
DevicesGet(dv, d) == dv[d]

\* devices.delete(udid): by id, whichever session is registered
DevicesDelete(d) == [devices EXCEPT ![d] = NoSession]

\* ------------------------------------------------------------------- Init
RelayInitFor(udids) ==
    /\ variant \in Variants
    /\ udidOf = udids
    /\ devices = [d \in Devices |-> NoSession]
    /\ sess = <<>>
    /\ wsPc = [w \in Sockets |-> "idle"]
    /\ wsOpen = [w \in Sockets |-> TRUE]
    /\ wsState = [w \in Sockets |-> NoSession]
    /\ bufferedAmount = [w \in Sockets |-> 0]
    /\ inbox = [w \in Sockets |-> <<>>]
    /\ nLines = 0
    /\ nClears = 0

\* every consumer asks for the same device
RelayInit == RelayInitFor([w \in Sockets |-> SharedDevice])

\* The connections are interchangeable: they arrive in the order of their names.
Earlier(w) ==
    {v \in Sockets : \E i, j \in 1..Len(SocketOrder) :
        i < j /\ SocketOrder[i] = v /\ SocketOrder[j] = w}
Arrives(w) == wsPc[w] = "idle" /\ \A v \in Earlier(w) : wsPc[v] # "idle"

Live(s) == sess[s].up \in {"running", "signaled"}

\* ------------------------------------------------------- attach (shared)
\* const state = devices.get(udid)!; state.sockets.add(ws);
\* if (state.buffer.length) ws.send(batch of state.buffer)
\* dv and ss are the registry and the heap as the start call left them.
AttachTo(w, dv, ss) ==
    LET s == DevicesGet(dv, udidOf[w])
    IN /\ devices' = dv
       /\ sess' = [ss EXCEPT ![s].sockets = @ \cup {w}]
       /\ wsState' = [wsState EXCEPT ![w] = s]
       /\ wsPc' = [wsPc EXCEPT ![w] = "attached"]
       /\ inbox' = IF ss[s].buffer # <<>>
                   THEN SendTo(inbox, {w}, BatchMsg(ss[s].buffer, TRUE))
                   ELSE inbox

\* ------------------------------------------------------ pm.ts connection
\* wss.on('connection'): startIosStreaming has no await inside, so the spawn,
\* the registration and the attach run without any other event in between.
ConnectIos(w) ==
    /\ UNCHANGED <<ringVars, streamerVars, portVars, splitterVars, uploaderVars, tunnelVars>>
    /\ variant = "ios"
    /\ Arrives(w)
    /\ LET d == udidOf[w]
           fresh == ~DevicesHas(d)
           ss == IF fresh THEN Append(sess, NewState(d, "running", TRUE)) ELSE sess
           dv == IF fresh THEN [devices EXCEPT ![d] = Len(sess) + 1] ELSE devices
       IN AttachTo(w, dv, ss)
    /\ UNCHANGED <<variant, udidOf, wsOpen, bufferedAmount, nLines, nClears>>

\* spawn() throws: startIosStreaming rejects before anything is registered and
\* the connection handler's catch sends log.error and closes the socket.
ConnectIosSpawnThrows(w) ==
    /\ UNCHANGED <<ringVars, streamerVars, portVars, splitterVars, uploaderVars, tunnelVars>>
    /\ variant = "ios"
    /\ Arrives(w)
    /\ ~DevicesHas(udidOf[w])
    /\ inbox' = SendTo(inbox, {w}, ErrorMsg)
    /\ wsOpen' = [wsOpen EXCEPT ![w] = FALSE]
    /\ wsPc' = [wsPc EXCEPT ![w] = "rejected"]
    /\ UNCHANGED <<variant, udidOf, devices, sess, wsState, bufferedAmount,
                   nLines, nClears>>

\* spawn() returns a child that could not be started (ENOENT and the like): its
\* 'error' event is emitted on the next tick, before the awaiting connection
\* handler resumes. The handler of pm.ts 49-54 finds state.sockets empty, and
\* teardown() unregisters the state; the connection handler then reads
\* devices.get(udid)! as undefined and ends in a TypeError on state.sockets.
\* The child's 'close' event is still to come.
ConnectIosSpawnError(w) ==
    /\ UNCHANGED <<ringVars, streamerVars, portVars, splitterVars, uploaderVars, tunnelVars>>
    /\ variant = "ios"
    /\ Arrives(w)
    /\ ~DevicesHas(udidOf[w])
    /\ sess' = Append(sess, [NewState(udidOf[w], "unspawned", FALSE)
                                EXCEPT !.errored = TRUE, !.rl = FALSE])
    /\ wsPc' = [wsPc EXCEPT ![w] = "crashed"]
    /\ UNCHANGED <<variant, udidOf, devices, wsOpen, wsState, bufferedAmount,
                   inbox, nLines, nClears>>

\* The same failed spawn on a runtime that ends the process on an unhandled
\* rejection (the default since Node 15; pm.ts installs no 'unhandledRejection'
\* or 'uncaughtException' listener): the TypeError of the connection handler
\* rejects the promise of the async listener, which nothing handles. The
\* service exits: the registry, the timers and the readers of every session
\* are gone, every connection is dropped, and the child processes of the other
\* sessions are left behind. The state created for the failed spawn is the
\* last one the service made.
ConnectIosSpawnErrorExits(w) ==
    /\ UNCHANGED <<ringVars, streamerVars, portVars, splitterVars, uploaderVars, tunnelVars>>
    /\ variant = "ios"
    /\ Arrives(w)
    /\ ~DevicesHas(udidOf[w])
    /\ devices' = [d \in Devices |-> NoSession]
    /\ sess' = Append([s \in 1..Len(sess) |->
                          [sess[s] EXCEPT !.batchTimer = FALSE, !.rl = FALSE,
                                          !.up = IF Live(s) THEN "orphaned"
                                                 ELSE @]],
                      [NewState(udidOf[w], "failed", FALSE)
                          EXCEPT !.errored = TRUE, !.rl = FALSE])
    /\ wsPc' = [v \in Sockets |-> "down"]
    /\ wsOpen' = [v \in Sockets |-> FALSE]
    /\ UNCHANGED <<variant, udidOf, wsState, bufferedAmount, inbox, nLines,
                   nClears>>

\* --------------------------------------------------- part_002 connection
\* wss.on('connection') up to the await of startStreaming: when the device is
\* registered the call returns at once and the handler attaches; otherwise the
\* state is registered and the handler waits for adbClient.openLogcat.
\* While it waits, wsState[w] is the `state` local to its startStreaming call.
ConnectAdb(w) ==
    /\ UNCHANGED <<ringVars, streamerVars, portVars, splitterVars, uploaderVars, tunnelVars>>
    /\ variant = "adb"
    /\ Arrives(w)
    /\ IF DevicesHas(udidOf[w])
       THEN AttachTo(w, devices, sess)
       ELSE /\ sess' = Append(sess, NewState(udidOf[w], "opening", FALSE))
            /\ devices' = [devices EXCEPT ![udidOf[w]] = Len(sess) + 1]
            /\ wsState' = [wsState EXCEPT ![w] = Len(sess) + 1]
            /\ wsPc' = [wsPc EXCEPT ![w] = "starting"]
            /\ UNCHANGED inbox
    /\ UNCHANGED <<variant, udidOf, wsOpen, bufferedAmount, nLines, nClears>>

\* openLogcat resolved: reader stored, handlers and batch timer installed, then
\* the connection handler goes on with devices.get(serial)!, which throws a
\* TypeError on state.sockets when the entry is gone (the handler ends there).
OpenLogcatResolve(w) ==
    /\ UNCHANGED <<ringVars, streamerVars, portVars, splitterVars, uploaderVars, tunnelVars>>
    /\ variant = "adb"
    /\ wsPc[w] = "starting"
    /\ LET s == wsState[w]
           ss == [sess EXCEPT ![s].up = "running", ![s].batchTimer = TRUE]
       IN IF devices[udidOf[w]] # NoSession
          THEN AttachTo(w, devices, ss)
          ELSE /\ sess' = ss
               /\ wsPc' = [wsPc EXCEPT ![w] = "crashed"]
               /\ wsState' = [wsState EXCEPT ![w] = NoSession]
               /\ UNCHANGED <<devices, inbox>>
    /\ UNCHANGED <<variant, udidOf, wsOpen, bufferedAmount, nLines, nClears>>

\* openLogcat rejected: catch { devices.delete(serial); throw err }, and the
\* connection handler reports the error to its own socket and closes it.
OpenLogcatReject(w) ==
    /\ UNCHANGED <<ringVars, streamerVars, portVars, splitterVars, uploaderVars, tunnelVars>>
    /\ variant = "adb"
    /\ wsPc[w] = "starting"
    /\ sess' = [sess EXCEPT ![wsState[w]].up = "failed"]
    /\ devices' = DevicesDelete(udidOf[w])
    /\ inbox' = SendTo(inbox, {w}, ErrorMsg)
    /\ wsOpen' = [wsOpen EXCEPT ![w] = FALSE]
    /\ wsPc' = [wsPc EXCEPT ![w] = "rejected"]
    /\ wsState' = [wsState EXCEPT ![w] = NoSession]
    /\ UNCHANGED <<variant, udidOf, bufferedAmount, nLines, nClears>>

\* ---------------------------------------------------------- line arrival
\* rl.on('line') / reader.on('entry'): the n-th line emitted is the number n.
Line(s) ==
    /\ UNCHANGED <<ringVars, streamerVars, portVars, splitterVars, uploaderVars, tunnelVars>>
    /\ s \in 1..Len(sess)
    /\ sess[s].up = "running"
    /\ sess[s].rl
    /\ Inputs < MaxInputs
    /\ nLines' = nLines + 1
    /\ sess' = [sess EXCEPT ![s].buffer = BufferPush(@, nLines + 1),
                            ![s].pending = Append(@, nLines + 1),
                            ![s].arrived = Append(@, nLines + 1)]
    /\ UNCHANGED <<variant, udidOf, devices, wsPc, wsOpen, wsState,
                   bufferedAmount, inbox, nClears>>

\* The empty string, as readline hands it to the 'line' listener for an empty
\* line of the child's output.
Blank == 0

\* rl.on('line') with an empty line: the listener has no test on the line.
BlankLine(s) ==
    /\ UNCHANGED <<ringVars, streamerVars, portVars, splitterVars, uploaderVars, tunnelVars>>
    /\ variant = "ios"
    /\ s \in 1..Len(sess)
    /\ sess[s].up = "running"
    /\ sess[s].rl
    /\ Inputs < MaxInputs
    /\ nLines' = nLines + 1
    /\ sess' = [sess EXCEPT ![s].buffer = BufferPush(@, Blank),
                            ![s].pending = Append(@, Blank),
                            ![s].arrived = Append(@, Blank)]
    /\ UNCHANGED <<variant, udidOf, devices, wsPc, wsOpen, wsState,
                   bufferedAmount, inbox, nClears>>

\* The child process writes to its error stream. pm.ts spawns it with piped
\* stdio and reads proc.stdout only: nothing listens to proc.stderr.
Stderr(s) ==
    /\ UNCHANGED <<ringVars, streamerVars, portVars, splitterVars, uploaderVars, tunnelVars>>
    /\ variant = "ios"
    /\ s \in 1..Len(sess)
    /\ sess[s].up = "running"
    /\ Inputs < MaxInputs
    /\ sess' = [sess EXCEPT ![s].stderr = @ + 1]
    /\ UNCHANGED <<variant, udidOf, devices, wsPc, wsOpen, wsState,
                   bufferedAmount, inbox, nLines, nClears>>

\* ------------------------------------------------------------ batch timer
NothingPendingNever(s) == FALSE

\* if (!state.pending.length) return;
NothingPending(s) == sess[s].pending = <<>>

SpliceLeavesLast(pending) == <<pending[Len(pending)]>>

\* what state.pending.splice(0) leaves in the queue
SpliceLeaves(pending) == <<>>

\* setInterval callback: nothing when pending is empty, otherwise
\* batch = pending.splice(0) goes to every open socket below the threshold.
BatchTimer(s) ==
    /\ UNCHANGED <<ringVars, streamerVars, portVars, splitterVars, uploaderVars, tunnelVars>>
    /\ s \in 1..Len(sess)
    /\ sess[s].batchTimer
    /\ IF NothingPending(s)
       THEN UNCHANGED <<sess, inbox>>
       ELSE /\ sess' = [sess EXCEPT ![s].pending = SpliceLeaves(@),
                                    ![s].drained = @ \o sess[s].pending]
            /\ inbox' = SendTo(inbox, BatchRecipients(s),
                               BatchMsg(sess[s].pending, FALSE))
    /\ UNCHANGED <<variant, udidOf, devices, wsPc, wsOpen, wsState,
                   bufferedAmount, nLines, nClears>>

\* ------------------------------------------------------- upstream events
TeardownIosKeepsTimer(s, up) ==
    /\ sess' = [sess EXCEPT ![s].rl = FALSE, ![s].up = up,
                            ![s].errored = @ \/ up # "exited"]
    /\ devices' = DevicesDelete(sess[s].udid)

\* pm.ts teardown(): clearInterval(state.batchTimer); rl.close(); devices.delete(udid)
TeardownIos(s, up) ==
    /\ sess' = [sess EXCEPT ![s].batchTimer = FALSE, ![s].rl = FALSE,
                            ![s].up = up,
                            ![s].errored = @ \/ up # "exited"]
    /\ devices' = DevicesDelete(sess[s].udid)

\* proc.on('error'): spawn or kill failed; the process may still close later.
ProcError(s) ==
    /\ UNCHANGED <<ringVars, streamerVars, portVars, splitterVars, uploaderVars, tunnelVars>>
    /\ variant = "ios"
    /\ s \in 1..Len(sess)
    /\ Live(s)
    /\ ~sess[s].errored
    /\ inbox' = SendTo(inbox, sess[s].sockets, ErrorMsg)
    /\ TeardownIos(s, sess[s].up)
    /\ UNCHANGED <<variant, udidOf, wsPc, wsOpen, wsState, bufferedAmount, nLines, nClears>>

\* proc.on('close'): the child has ended, or could not be spawned, and its
\* streams are closed.
ProcClose(s) ==
    /\ UNCHANGED <<ringVars, streamerVars, portVars, splitterVars, uploaderVars, tunnelVars>>
    /\ variant = "ios"
    /\ s \in 1..Len(sess)
    /\ Live(s) \/ sess[s].up = "unspawned"
    /\ inbox' = SendTo(inbox, sess[s].sockets, StopMsg)
    /\ TeardownIos(s, "exited")
    /\ UNCHANGED <<variant, udidOf, wsPc, wsOpen, wsState, bufferedAmount, nLines, nClears>>

\* part_002 teardown(event, err): clearInterval; logcat.error or logcat.stop to
\* every socket of the state; devices.delete(serial). Both events end the reader.
TeardownAdb(s, m) ==
    /\ sess' = [sess EXCEPT ![s].batchTimer = FALSE, ![s].up = "exited",
                            ![s].errored = @ \/ m = ErrorMsg]
    /\ inbox' = SendTo(inbox, sess[s].sockets, m)
    /\ devices' = DevicesDelete(sess[s].udid)

ReaderEnd(s) ==
    /\ UNCHANGED <<ringVars, streamerVars, portVars, splitterVars, uploaderVars, tunnelVars>>
    /\ variant = "adb"
    /\ s \in 1..Len(sess)
    /\ Live(s)
    /\ TeardownAdb(s, StopMsg)
    /\ UNCHANGED <<variant, udidOf, wsPc, wsOpen, wsState, bufferedAmount, nLines, nClears>>

ReaderError(s) ==
    /\ UNCHANGED <<ringVars, streamerVars, portVars, splitterVars, uploaderVars, tunnelVars>>
    /\ variant = "adb"
    /\ s \in 1..Len(sess)
    /\ Live(s)
    /\ TeardownAdb(s, ErrorMsg)
    /\ UNCHANGED <<variant, udidOf, wsPc, wsOpen, wsState, bufferedAmount, nLines, nClears>>

\* ----------------------------------------------------- consumer requests
ClearRequestViewOnly(w) ==
    /\ UNCHANGED <<ringVars, streamerVars, portVars, splitterVars, uploaderVars, tunnelVars>>
    /\ wsPc[w] = "attached"
    /\ wsOpen[w]
    /\ Inputs < MaxInputs
    /\ nClears' = nClears + 1
    /\ inbox' = SendTo(inbox, {w}, ClearedMsg)
    /\ UNCHANGED <<variant, udidOf, devices, sess, wsPc, wsOpen, wsState,
                   bufferedAmount, nLines>>

\* ws.on('message') with event 'clear': state.buffer = []; ws.send(cleared)
ClearRequest(w) ==
    /\ UNCHANGED <<ringVars, streamerVars, portVars, splitterVars, uploaderVars, tunnelVars>>
    /\ wsPc[w] = "attached"
    /\ wsOpen[w]
    /\ Inputs < MaxInputs
    /\ nClears' = nClears + 1
    /\ sess' = [sess EXCEPT ![wsState[w]].buffer = <<>>,
                            ![wsState[w]].clearedAt = Len(sess[wsState[w]].arrived)]
    /\ inbox' = SendTo(inbox, {w}, ClearedMsg)
    /\ UNCHANGED <<variant, udidOf, devices, wsPc, wsOpen, wsState,
                   bufferedAmount, nLines>>

\* state.process.kill() / state.reader.end(): the stop signal. The adb reader is
\* still null while openLogcat is pending; the TypeError is caught.
StopSignal(up) == IF up = "running" THEN "signaled" ELSE up

\* ws.on('close'): state.sockets.delete(ws); with no socket left, signal the
\* upstream, clearInterval(state.batchTimer), devices.delete(udid).
CloseHandler(w) ==
    LET s == wsState[w]
        rest == sess[s].sockets \ {w}
    IN IF rest # {}
       THEN /\ sess' = [sess EXCEPT ![s].sockets = rest]
            /\ UNCHANGED devices
       ELSE /\ sess' = [sess EXCEPT ![s].sockets = rest,
                                    ![s].up = StopSignal(@),
                                    ![s].batchTimer = FALSE]
            /\ devices' = DevicesDelete(sess[s].udid)

\* The connection closes. Its 'close' handler exists only once the connection
\* handler has attached it; before that the close goes unnoticed by the server.
WsClose(w) ==
    /\ UNCHANGED <<ringVars, streamerVars, portVars, splitterVars, uploaderVars, tunnelVars>>
    /\ wsOpen[w]
    /\ wsPc[w] # "idle"
    /\ wsOpen' = [wsOpen EXCEPT ![w] = FALSE]
    /\ IF wsPc[w] = "attached"
       THEN /\ CloseHandler(w)
            /\ wsPc' = [wsPc EXCEPT ![w] = "closed"]
       ELSE UNCHANGED <<sess, devices, wsPc>>
    /\ UNCHANGED <<variant, udidOf, wsState, bufferedAmount, inbox, nLines, nClears>>

\* The network: what was sent to an attached socket and is not yet flushed
\* reaches the threshold (slow consumer), or drains below it. The amount is
\* only ever read by a batch tick with lines pending.
Backpressure(w) ==
    /\ UNCHANGED <<ringVars, streamerVars, portVars, splitterVars, uploaderVars, tunnelVars>>
    /\ wsPc[w] = "attached"
    /\ wsOpen[w]
    /\ inbox[w] # <<>>
    /\ sess[wsState[w]].batchTimer
    /\ sess[wsState[w]].pending # <<>>
    /\ bufferedAmount' = [bufferedAmount EXCEPT ![w] = MAX_WS_BUFFERED - @]
    /\ UNCHANGED <<variant, udidOf, devices, sess, wsPc, wsOpen, wsState,
                   inbox, nLines, nClears>>

RelayNext ==
    \/ \E w \in Sockets : ConnectIos(w)
    \/ \E w \in Sockets : ConnectIosSpawnThrows(w)
    \/ \E w \in Sockets : ConnectIosSpawnError(w)
    \/ \E w \in Sockets : ConnectIosSpawnErrorExits(w)
    \/ \E w \in Sockets : ConnectAdb(w)
    \/ \E w \in Sockets : OpenLogcatResolve(w)
    \/ \E w \in Sockets : OpenLogcatReject(w)
    \/ \E s \in SessionIds : Line(s)
    \/ \E s \in SessionIds : Stderr(s)
    \/ \E s \in SessionIds : BatchTimer(s)
    \/ \E s \in SessionIds : ProcError(s)
    \/ \E s \in SessionIds : ProcClose(s)
    \/ \E s \in SessionIds : ReaderEnd(s)
    \/ \E s \in SessionIds : ReaderError(s)
    \/ \E w \in Sockets : ClearRequest(w)
    \/ \E w \in Sockets : WsClose(w)
    \/ \E w \in Sockets : Backpressure(w)

\* ============================================================ RingBuffer
Undefined == "undefined"

\* push(item): buf[head] = item; head = (head + 1) % capacity; size++ below capacity
RingBufferPush(rb, item) ==
    [buf |-> [rb.buf EXCEPT ![rb.head] = item],
     head |-> (rb.head + 1) % rb.capacity,
     size |-> IF rb.size < rb.capacity THEN rb.size + 1 ELSE rb.size,
     capacity |-> rb.capacity]

GetAllStartZero(rb) == 0

\* getAll(): from head when full, from 0 otherwise; undefined slots are skipped
GetAllStart(rb) == IF rb.size = rb.capacity THEN rb.head ELSE 0

GetAll(rb) ==
    LET start == GetAllStart(rb)
        out == [i \in 1..rb.size |-> rb.buf[(start + (i - 1)) % rb.capacity]]
    IN SelectSeq(out, LAMBDA v : v # Undefined)

TheRing == [buf |-> buf, head |-> head, size |-> size, capacity |-> capacity]

\* new RingBuffer(capacity): new Array(capacity), head = 0, size = 0
RingNew(c) ==
    /\ capacity = c
    /\ buf = [i \in 0..(c - 1) |-> Undefined]
    /\ head = 0
    /\ size = 0
    /\ arrayBuffer = <<>>
    /\ pushed = <<>>

RingInit == \E c \in 1..MaxCapacity : RingNew(c)
RingIdle == RingNew(1)

\* One item goes to the ring buffer and to a push/shift array buffer.
Push(item) ==
    /\ UNCHANGED <<relayVars, streamerVars, portVars, splitterVars, uploaderVars, tunnelVars>>
    /\ Len(pushed) < MaxPushes
    /\ LET rb == RingBufferPush(TheRing, item)
       IN /\ buf' = rb.buf
          /\ head' = rb.head
          /\ size' = rb.size
    /\ arrayBuffer' = BufferPush(arrayBuffer, item)
    /\ pushed' = Append(pushed, item)
    /\ UNCHANGED capacity

RingNext == \E item \in Items : Push(item)

\* ======================================================== IOSLogStreamer
\* Session: process is "running", "exited" (the process is gone, its 'close'
\* event not yet emitted) or "closed"; signals counts the signals delivered.
NewSession(u) ==
    [udid |-> u, process |-> "running", killed |-> FALSE, stopped |-> FALSE,
     fileOpen |-> TRUE, errored |-> FALSE, signals |-> 0]

Call(op, u, res) == [n |-> lastCall.n + 1, op |-> op, udid |-> u, res |-> res]
Event(ev, u) == [ev |-> ev, udid |-> u]

StreamerInit ==
    /\ sessions = [u \in Udids |-> NoSession]
    /\ heap = <<>>
    /\ emitted = <<>>
    /\ lastCall = [n |-> 0, op |-> "none", udid |-> "none", res |-> "none"]

SessionsHasNever(u) == FALSE

\* this.sessions.has(udid)
SessionsHas(u) == sessions[u] # NoSession

\* startLogs(udid): throws when a session is registered, else spawns, registers
\* the session and emits 'started'.
StartLogs(u) ==
    /\ UNCHANGED <<relayVars, ringVars, portVars, splitterVars, uploaderVars, tunnelVars>>
    /\ lastCall.n < MaxCalls
    /\ IF SessionsHas(u)
       THEN /\ lastCall' = Call("start", u, "threw")
            /\ UNCHANGED <<sessions, heap, emitted>>
       ELSE /\ heap' = Append(heap, NewSession(u))
            /\ sessions' = [sessions EXCEPT ![u] = Len(heap) + 1]
            /\ emitted' = Append(emitted, Event("started", u))
            /\ lastCall' = Call("start", u, "ok")

AlreadyKilledNever(s) == FALSE

\* if (session.process.killed) return;
AlreadyKilled(s) == s.killed

\* session.process.kill('SIGINT'): delivered to a running process, which sets
\* killed; a process that is gone gets nothing (ESRCH) and killed stays false.
Kill(s) ==
    IF s.process = "running"
    THEN [s EXCEPT !.killed = TRUE, !.signals = @ + 1]
    ELSE s

\* stopLogs(udid)
StopLogs(u) ==
    /\ UNCHANGED <<relayVars, ringVars, portVars, splitterVars, uploaderVars, tunnelVars>>
    /\ lastCall.n < MaxCalls
    /\ UNCHANGED <<sessions, emitted>>
    /\ IF ~SessionsHas(u)
       THEN /\ lastCall' = Call("stop", u, "threw")
            /\ UNCHANGED heap
       ELSE LET i == sessions[u]
            IN IF AlreadyKilled(heap[i])
               THEN /\ lastCall' = Call("stop", u, "noop")
                    /\ UNCHANGED heap
               ELSE /\ heap' = [heap EXCEPT ![i] = Kill([@ EXCEPT !.stopped = TRUE])]
                    /\ lastCall' = Call("stop", u,
                           IF heap[i].process = "running" THEN "signaled" ELSE "gone")

\* cleanupSession(udid): the session registered under udid, if any, has its
\* file stream ended and is removed. hp is the heap as the caller left it.
CleanupSession(u, hp) ==
    IF ~SessionsHas(u)
    THEN /\ heap' = hp
         /\ UNCHANGED sessions
    ELSE /\ heap' = [hp EXCEPT ![sessions[u]].fileOpen = FALSE]
         /\ sessions' = [sessions EXCEPT ![u] = NoSession]

\* proc.on('error'): spawn failure and the like; the process may still close.
StreamerProcError(i) ==
    /\ UNCHANGED <<relayVars, ringVars, portVars, splitterVars, uploaderVars, tunnelVars>>
    /\ i \in 1..Len(heap)
    /\ heap[i].process # "closed"
    /\ ~heap[i].errored
    /\ emitted' = Append(emitted, Event("error", heap[i].udid))
    /\ CleanupSession(heap[i].udid, [heap EXCEPT ![i].errored = TRUE])
    /\ UNCHANGED lastCall

\* The process ends, by itself or after a signal.
ProcExit(i) ==
    /\ UNCHANGED <<relayVars, ringVars, portVars, splitterVars, uploaderVars, tunnelVars>>
    /\ i \in 1..Len(heap)
    /\ heap[i].process = "running"
    /\ heap' = [heap EXCEPT ![i].process = "exited"]
    /\ UNCHANGED <<sessions, emitted, lastCall>>

\* proc.on('close'): 'stopped' unless session.stopped, then cleanupSession
StreamerProcClose(i) ==
    /\ UNCHANGED <<relayVars, ringVars, portVars, splitterVars, uploaderVars, tunnelVars>>
    /\ i \in 1..Len(heap)
    /\ heap[i].process = "exited"
    /\ emitted' = IF ~heap[i].stopped
                  THEN Append(emitted, Event("stopped", heap[i].udid))
                  ELSE emitted
    /\ CleanupSession(heap[i].udid, [heap EXCEPT ![i].process = "closed"])
    /\ UNCHANGED lastCall

StreamerNext ==
    \/ \E u \in Udids : StartLogs(u)
    \/ \E u \in Udids : StopLogs(u)
    \/ \E i \in 1..MaxCalls : StreamerProcError(i)
    \/ \E i \in 1..MaxCalls : ProcExit(i)
    \/ \E i \in 1..MaxCalls : StreamerProcClose(i)

\* ============================================ IOSLogStreamer: stdout lines
\* The child's output is text encoded in UTF-8. The characters tried: a letter,
\* a letter of two bytes, CR and LF; "?" is U+FFFD, which only decoding makes.
Chars == {"a", "e", "r", "n"}
\* Bytes: the ASCII ones stand for their character; "H" and "T" are the lead
\* and the continuation byte of the two-byte letter.
Encode(ch) == IF ch = "e" THEN <<"H", "T">> ELSE <<ch>>

RECURSIVE EncodeAll(_)
EncodeAll(text) ==
    IF text = <<>> THEN <<>> ELSE Encode(Head(text)) \o EncodeAll(Tail(text))

\* chunk.toString('utf8'): a lead byte without its continuation byte in the
\* same buffer, and a continuation byte without its lead byte, each decode to
\* U+FFFD.
RECURSIVE ToStringUtf8(_)
ToStringUtf8(bytes) ==
    IF bytes = <<>> THEN <<>>
    ELSE IF bytes[1] = "H"
         THEN IF Len(bytes) >= 2 /\ bytes[2] = "T"
              THEN <<"e">> \o ToStringUtf8(SubSeq(bytes, 3, Len(bytes)))
              ELSE <<"?">> \o ToStringUtf8(Tail(bytes))
         ELSE IF bytes[1] = "T"
              THEN <<"?">> \o ToStringUtf8(Tail(bytes))
              ELSE <<bytes[1]>> \o ToStringUtf8(Tail(bytes))

\* the segment before a match of /\r?\n/ that ends at the LF after `cur`
BeforeTerminator(cur) ==
    IF cur # <<>> /\ cur[Len(cur)] = "r" THEN SubSeq(cur, 1, Len(cur) - 1) ELSE cur

\* text.split(/\r?\n/): the segments between the terminators, the last one
\* being what follows the last terminator (possibly empty).
RECURSIVE SplitFrom(_, _)
SplitFrom(text, cur) ==
    IF text = <<>> THEN <<cur>>
    ELSE IF Head(text) = "n"
         THEN <<BeforeTerminator(cur)>> \o SplitFrom(Tail(text), <<>>)
         ELSE SplitFrom(Tail(text), Append(cur, Head(text)))

Split(text) == SplitFrom(text, <<>>)

\* !line.trim(): CR is the only white space among the characters tried
TrimIsEmpty(line) == \A i \in 1..Len(line) : line[i] = "r"

\* the loop over parts: the lines that pass the trim test, in order
RECURSIVE Kept(_)
Kept(parts) ==
    IF parts = <<>> THEN <<>>
    ELSE (IF TrimIsEmpty(Head(parts)) THEN <<>> ELSE <<Head(parts)>>)
         \o Kept(Tail(parts))

\* parts.pop() has removed the last segment
Popped(parts) == SubSeq(parts, 1, Len(parts) - 1)

RECURSIVE Texts(_)
Texts(n) ==
    IF n = 0 THEN {<<>>}
    ELSE Texts(n - 1) \cup {Append(t, c) : t \in Texts(n - 1), c \in Chars}

SplitterIdle ==
    /\ written = <<>>
    /\ unread = <<>>
    /\ remainder = <<>>
    /\ logged = <<>>
    /\ closed = FALSE

\* startLogs has run; the child will write some text of at most MaxStream
\* characters.
SplitterInit ==
    /\ written \in {EncodeAll(t) : t \in Texts(MaxStream)}
    /\ unread = written
    /\ remainder = <<>>
    /\ logged = <<>>
    /\ closed = FALSE

\* proc.stdout.on('data'): the next n bytes arrive as one chunk.
StdoutData(n) ==
    /\ UNCHANGED <<relayVars, ringVars, streamerVars, portVars, uploaderVars, tunnelVars>>
    /\ ~closed
    /\ n \in 1..Len(unread)
    /\ LET chunk == SubSeq(unread, 1, n)
           text == remainder \o ToStringUtf8(chunk)
           parts == Split(text)
       IN /\ remainder' = parts[Len(parts)]
          /\ logged' = logged \o Kept(Popped(parts))
    /\ unread' = SubSeq(unread, n + 1, Len(unread))
    /\ UNCHANGED <<written, closed>>

\* proc.on('close') after the last chunk: cleanupSession drops the session and
\* its remainder with it.
StdoutClose ==
    /\ UNCHANGED <<relayVars, ringVars, streamerVars, portVars, uploaderVars, tunnelVars>>
    /\ ~closed
    /\ unread = <<>>
    /\ closed' = TRUE
    /\ remainder' = <<>>
    /\ UNCHANGED <<written, unread, logged>>

SplitterNext ==
    \/ \E n \in 1..(2 * MaxStream) : StdoutData(n)
    \/ StdoutClose

\* =========================================================== PortManager
Ports == minPort..maxPort

\* The arguments tried: n of getFreePorts (0 is rejected) and the port lists of
\* releasePorts (one port, possibly out of range, or the whole range).
PortCounts == 0..2
ReleaseArgs == {{q} : q \in minPort..(maxPort + 1)} \cup {Ports}

\* An operation handed to enqueueOperation. pc: "queued", "running" (in the
\* loop of allocatePorts), "checking" (awaiting checkPortAvailability),
\* "completed" (allocatePorts has returned, the promise getFreePorts gave its
\* caller is not yet fulfilled), "resolved" or "rejected".
NewOperation(kind, n, ports) ==
    [kind |-> kind, n |-> n, ports |-> ports, isArray |-> TRUE, pc |-> "queued",
     allocatedPorts |-> <<>>, attempts |-> 0, startPort |-> minPort, port |-> minPort]

Allocated(ports) == [ev |-> "allocated", ports |-> ports]
Returned(ports) == [ev |-> "returned", ports |-> ports]
Released(ports) == [ev |-> "released", ports |-> ports]

PortInit ==
    /\ reservedPorts = {}
    /\ operations = <<>>
    /\ portLog = <<>>

SettledUnlessRejected(k) == operations[k].pc \in {"completed", "resolved"}

\* the promise of operation k has settled: this.operationQueue, which is
\* result.catch(() => {}), is then fulfilled whatever the outcome
Settled(k) == operations[k].pc \in {"completed", "resolved", "rejected"}
Completing == \E k \in 1..Len(operations) : operations[k].pc = "completed"

\* The operation once its promise has settled: the locals of the call are gone,
\* what remains is the outcome and, for a resolved call, the array returned.
Settle(op, pc) ==
    [NewOperation(op.kind, op.n, op.ports) EXCEPT
        !.pc = pc,
        !.isArray = op.isArray,
        !.allocatedPorts = IF pc = "rejected" THEN <<>> ELSE op.allocatedPorts]

MayRunAlways(k) == TRUE

\* this.operationQueue.then(operation): an operation runs once every operation
\* enqueued before it has settled.
MayRun(k) == \A j \in 1..(k - 1) : Settled(j)

\* getFreePorts(n): enqueueOperation(() => this.allocatePorts(n)). A call is
\* made from a task of its own, never in the middle of the microtasks that
\* settle the promises of a completed operation.
GetFreePorts(n) ==
    /\ UNCHANGED <<relayVars, ringVars, streamerVars, splitterVars, uploaderVars, tunnelVars>>
    /\ Len(operations) < MaxOperations
    /\ ~Completing
    /\ operations' = Append(operations, NewOperation("get", n, {}))
    /\ UNCHANGED <<reservedPorts, portLog>>

\* releasePorts(ports): enqueueOperation(() => releasePortsInternal(ports))
ReleasePorts(ports) ==
    /\ UNCHANGED <<relayVars, ringVars, streamerVars, splitterVars, uploaderVars, tunnelVars>>
    /\ Len(operations) < MaxOperations
    /\ ~Completing
    /\ operations' = Append(operations, NewOperation("release", 0, ports))
    /\ UNCHANGED <<reservedPorts, portLog>>

\* releasePorts called with an argument that is not an array
ReleasePortsNotArray ==
    /\ UNCHANGED <<relayVars, ringVars, streamerVars, splitterVars, uploaderVars, tunnelVars>>
    /\ Len(operations) < MaxOperations
    /\ ~Completing
    /\ operations' =
          Append(operations,
                 [NewOperation("release", 0, {}) EXCEPT !.isArray = FALSE])
    /\ UNCHANGED <<reservedPorts, portLog>>

\* allocatePorts(n) begins: n is validated and getRandomStartPort() drawn.
AllocateStart(k) ==
    /\ UNCHANGED <<relayVars, ringVars, streamerVars, splitterVars, uploaderVars, tunnelVars>>
    /\ k \in 1..Len(operations)
    /\ operations[k].kind = "get"
    /\ operations[k].pc = "queued"
    /\ MayRun(k)
    /\ IF operations[k].n <= 0
       THEN operations' = [operations EXCEPT ![k] = Settle(@, "rejected")]
       ELSE \E start \in Ports :
               operations' = [operations EXCEPT ![k].pc = "running",
                                                ![k].startPort = start]
    /\ UNCHANGED <<reservedPorts, portLog>>

\* One pass of the while loop up to its await, or the end of the loop:
\* allocatePorts returns allocatedPorts when it holds n ports and throws when
\* the attempts are used up.
AllocateStep(k) ==
    /\ UNCHANGED <<relayVars, ringVars, streamerVars, splitterVars, uploaderVars, tunnelVars>>
    /\ k \in 1..Len(operations)
    /\ operations[k].pc = "running"
    /\ LET op == operations[k]
           port == op.startPort
           next == IF port >= maxPort THEN minPort ELSE port + 1
       IN IF Len(op.allocatedPorts) < op.n /\ op.attempts < maxAttempts
          THEN /\ operations' =
                     [operations EXCEPT ![k].startPort = next,
                                        ![k].attempts = @ + 1,
                                        ![k].port = port,
                                        ![k].pc = IF port \in reservedPorts
                                                  THEN "running" ELSE "checking"]
               /\ UNCHANGED portLog
          ELSE IF Len(op.allocatedPorts) < op.n
          THEN /\ operations' = [operations EXCEPT ![k] = Settle(@, "rejected")]
               /\ UNCHANGED portLog
          ELSE /\ operations' = [operations EXCEPT ![k] = Settle(@, "completed")]
               /\ portLog' = Append(portLog,
                                    Allocated({op.allocatedPorts[i] : i \in 1..Len(op.allocatedPorts)}))
    /\ UNCHANGED reservedPorts

\* The promise getFreePorts returned is fulfilled. allocatePorts' promise
\* settles `result`, whose first reaction (result.catch, line 102) settles
\* this.operationQueue and whose second settles the promise of
\* enqueueOperation, adopted in turn by the promise of getFreePorts: the
\* operation chained next on the queue, if there is one, is called one
\* microtask before the caller's promise is fulfilled.
Resolve(k) ==
    /\ UNCHANGED <<relayVars, ringVars, streamerVars, splitterVars, uploaderVars, tunnelVars>>
    /\ k \in 1..Len(operations)
    /\ operations[k].pc = "completed"
    /\ k < Len(operations) => operations[k + 1].pc # "queued"
    /\ operations' = [operations EXCEPT ![k].pc = "resolved"]
    /\ portLog' = Append(portLog,
                         Returned({operations[k].allocatedPorts[i] :
                                      i \in 1..Len(operations[k].allocatedPorts)}))
    /\ UNCHANGED reservedPorts

\* checkPortAvailability(port) settles, after the test server's events: a
\* port that can be bound is reserved and added to allocatedPorts.
CheckPortAvailability(k, isAvailable) ==
    /\ UNCHANGED <<relayVars, ringVars, streamerVars, splitterVars, uploaderVars, tunnelVars>>
    /\ k \in 1..Len(operations)
    /\ operations[k].pc = "checking"
    /\ ~Completing
    /\ IF isAvailable
       THEN /\ reservedPorts' = reservedPorts \cup {operations[k].port}
            /\ operations' = [operations EXCEPT ![k].pc = "running",
                                  ![k].allocatedPorts = Append(@, operations[k].port)]
       ELSE /\ operations' = [operations EXCEPT ![k].pc = "running"]
            /\ UNCHANGED reservedPorts
    /\ UNCHANGED portLog

\* releasePortsInternal(ports): throws when ports is not an array; otherwise
\* every integer within the range is removed from the reserved set.
ReleasePortsInternal(k) ==
    /\ UNCHANGED <<relayVars, ringVars, streamerVars, splitterVars, uploaderVars, tunnelVars>>
    /\ k \in 1..Len(operations)
    /\ operations[k].kind = "release"
    /\ operations[k].pc = "queued"
    /\ MayRun(k)
    /\ IF ~operations[k].isArray
       THEN /\ operations' = [operations EXCEPT ![k] = Settle(@, "rejected")]
            /\ UNCHANGED <<reservedPorts, portLog>>
       ELSE /\ reservedPorts' = reservedPorts \ (operations[k].ports \cap Ports)
            /\ operations' = [operations EXCEPT ![k] = Settle(@, "resolved")]
            /\ portLog' = Append(portLog, Released(operations[k].ports \cap Ports))

PortNext ==
    \/ \E n \in PortCounts : GetFreePorts(n)
    \/ \E ports \in ReleaseArgs : ReleasePorts(ports)
    \/ ReleasePortsNotArray
    \/ \E k \in 1..MaxOperations : AllocateStart(k)
    \/ \E k \in 1..MaxOperations : AllocateStep(k)
    \/ \E k \in 1..MaxOperations : Resolve(k)
    \/ \E k \in 1..MaxOperations : \E isAvailable \in BOOLEAN : CheckPortAvailability(k, isAvailable)
    \/ \E k \in 1..MaxOperations : ReleasePortsInternal(k)

\* ====================================================== FileChunkUploader
\* updateButtonStates(isUploading)
UpdateButtonStates(isUploading) ==
    [startBtn |-> isUploading, pauseBtn |-> ~isUploading, resumeBtn |-> TRUE,
     cancelBtn |-> ~isUploading, fileInput |-> isUploading]

\* an uploadNextChunk call that has returned
Ended == [pc |-> "ended", idx |-> 0, file |-> 0]

\* the constructor, and the page with every button but the file input disabled
UploaderInit ==
    /\ file = 0
    /\ chunks = <<>>
    /\ currentChunkIndex = 0
    /\ uploadedChunks = 0
    /\ isPaused = FALSE
    /\ isCancelled = FALSE
    /\ disabled = [startBtn |-> TRUE, pauseBtn |-> TRUE, resumeBtn |-> TRUE,
                   cancelBtn |-> TRUE, fileInput |-> FALSE]
    /\ uploadStatus = "none"
    /\ chains = <<>>
    /\ successes = <<>>
    /\ clicks = 0
    /\ failures = 0

\* the uploadNextChunk calls in progress: awaiting fetch or the retry delay
Active(cs) == {c \in 1..Len(cs) : cs[c].pc \in {"fetching", "waiting"}}

\* uploadNextChunk() up to its first await, called in slot c of cs after the
\* caller has set the flags and the index; dis and st are the buttons and the
\* status text as the caller left them.
UploadNextChunk(c, cs, dis, st) ==
    IF isPaused' \/ isCancelled'
    THEN /\ chains' = [cs EXCEPT ![c] = Ended]
         /\ disabled' = dis
         /\ uploadStatus' = st
    ELSE IF currentChunkIndex' >= Len(chunks')
    THEN /\ chains' = [cs EXCEPT ![c] = Ended]
         /\ disabled' = UpdateButtonStates(FALSE)
         /\ uploadStatus' = "completed"
    ELSE /\ chains' = [cs EXCEPT ![c] = [pc |-> "fetching",
                                         idx |-> currentChunkIndex',
                                         file |-> file']]
         /\ disabled' = dis
         /\ uploadStatus' = st

\* handleFileSelect with a file of n chunks (an empty file has none)
HandleFileSelect(n) ==
    /\ UNCHANGED <<relayVars, ringVars, streamerVars, portVars, splitterVars,
                   tunnelVars>>
    /\ ~disabled.fileInput
    /\ clicks < MaxClicks
    /\ clicks' = clicks + 1
    /\ file' = file + 1
    /\ chunks' = [i \in 1..n |-> "pending"]
    /\ successes' = <<>>
    /\ uploadStatus' = "split"
    /\ disabled' = [disabled EXCEPT !.startBtn = FALSE]
    /\ UNCHANGED <<currentChunkIndex, uploadedChunks, isPaused, isCancelled,
                   chains, failures>>

\* startUpload()
StartUpload ==
    /\ UNCHANGED <<relayVars, ringVars, streamerVars, portVars, splitterVars,
                   tunnelVars>>
    /\ ~disabled.startBtn
    /\ clicks < MaxClicks
    /\ clicks' = clicks + 1
    /\ UNCHANGED <<file, chunks, failures>>
    /\ IF Len(chunks) = 0
       THEN UNCHANGED <<currentChunkIndex, uploadedChunks, isPaused,
                        isCancelled, disabled, uploadStatus, chains, successes>>
       ELSE /\ isCancelled' = FALSE
            /\ isPaused' = FALSE
            /\ currentChunkIndex' = 0
            /\ uploadedChunks' = 0
            /\ successes' = [i \in 1..Len(chunks) |-> 0]
            /\ UploadNextChunk(Len(chains) + 1, Append(chains, Ended),
                               UpdateButtonStates(TRUE), uploadStatus)

\* the fetch of chain c resolves with response.ok
FetchOk(c) ==
    /\ UNCHANGED <<relayVars, ringVars, streamerVars, portVars, splitterVars,
                   tunnelVars>>
    /\ c \in 1..Len(chains)
    /\ chains[c].pc = "fetching"
    /\ chunks' = IF chains[c].file = file
                 THEN [chunks EXCEPT ![chains[c].idx + 1] = "success"]
                 ELSE chunks
    /\ successes' = IF chains[c].idx + 1 \in 1..Len(successes)
                    THEN [successes EXCEPT ![chains[c].idx + 1] = @ + 1]
                    ELSE successes
    /\ uploadedChunks' = uploadedChunks + 1
    /\ currentChunkIndex' = currentChunkIndex + 1
    /\ UNCHANGED <<file, isPaused, isCancelled, clicks, failures>>
    /\ UploadNextChunk(c, chains, disabled, "uploading")

\* the fetch of chain c rejects, or resolves with a status that is not ok
FetchFail(c) ==
    /\ UNCHANGED <<relayVars, ringVars, streamerVars, portVars, splitterVars,
                   tunnelVars>>
    /\ c \in 1..Len(chains)
    /\ chains[c].pc = "fetching"
    /\ failures < MaxFailures
    /\ failures' = failures + 1
    /\ chunks' = IF chains[c].file = file
                 THEN [chunks EXCEPT ![chains[c].idx + 1] = "error"]
                 ELSE chunks
    /\ chains' = [chains EXCEPT ![c] = IF ~isPaused /\ ~isCancelled
                                       THEN [@ EXCEPT !.pc = "waiting"]
                                       ELSE Ended]
    /\ UNCHANGED <<file, currentChunkIndex, uploadedChunks, isPaused,
                   isCancelled, disabled, uploadStatus, successes, clicks>>

\* the three seconds of chain c are over: uploadNextChunk() again
RetryElapsed(c) ==
    /\ UNCHANGED <<relayVars, ringVars, streamerVars, portVars, splitterVars,
                   tunnelVars>>
    /\ c \in 1..Len(chains)
    /\ chains[c].pc = "waiting"
    /\ UNCHANGED <<file, chunks, currentChunkIndex, uploadedChunks, isPaused,
                   isCancelled, successes, clicks, failures>>
    /\ UploadNextChunk(c, chains, disabled, uploadStatus)

\* pauseUpload()
PauseUpload ==
    /\ UNCHANGED <<relayVars, ringVars, streamerVars, portVars, splitterVars,
                   tunnelVars>>
    /\ ~disabled.pauseBtn
    /\ clicks < MaxClicks
    /\ clicks' = clicks + 1
    /\ isPaused' = TRUE
    /\ disabled' = [disabled EXCEPT !.pauseBtn = TRUE, !.resumeBtn = FALSE]
    /\ uploadStatus' = "paused"
    /\ UNCHANGED <<file, chunks, currentChunkIndex, uploadedChunks, isCancelled,
                   chains, successes, failures>>

\* resumeUpload(): uploadNextChunk() is called whether or not an earlier call
\* is still awaiting its fetch or its delay.
ResumeUpload ==
    /\ UNCHANGED <<relayVars, ringVars, streamerVars, portVars, splitterVars,
                   tunnelVars>>
    /\ ~disabled.resumeBtn
    /\ clicks < MaxClicks
    /\ clicks' = clicks + 1
    /\ isPaused' = FALSE
    /\ UNCHANGED <<file, chunks, currentChunkIndex, uploadedChunks, isCancelled,
                   successes, failures>>
    /\ UploadNextChunk(Len(chains) + 1, Append(chains, Ended),
                       [disabled EXCEPT !.pauseBtn = FALSE, !.resumeBtn = TRUE],
                       "resuming")

\* cancelUpload()
CancelUpload ==
    /\ UNCHANGED <<relayVars, ringVars, streamerVars, portVars, splitterVars,
                   tunnelVars>>
    /\ ~disabled.cancelBtn
    /\ clicks < MaxClicks
    /\ clicks' = clicks + 1
    /\ isCancelled' = TRUE
    /\ uploadStatus' = "cancelled"
    /\ disabled' = [UpdateButtonStates(FALSE) EXCEPT !.startBtn = FALSE]
    /\ UNCHANGED <<file, chunks, currentChunkIndex, uploadedChunks, isPaused,
                   chains, successes, failures>>

UploaderNext ==
    \/ \E n \in 0..MaxChunks : HandleFileSelect(n)
    \/ StartUpload
    \/ \E c \in 1..MaxClicks : FetchOk(c)
    \/ \E c \in 1..MaxClicks : FetchFail(c)
    \/ \E c \in 1..MaxClicks : RetryElapsed(c)
    \/ PauseUpload
    \/ ResumeUpload
    \/ CancelUpload

\* =========================================================== GoIosWrapper
NoTunnel == 0

\* The device an operation names: one below iOS 17, one at iOS 17 or above,
\* and a udid that `ios list` does not report.
TunnelDevices == {"ios16", "ios17", "unknown"}

TunnelInit ==
    /\ tunnelStarted = FALSE
    /\ tunnelProcess = NoTunnel
    /\ tunnels = <<>>
    /\ calls = <<>>

\* installApp, uninstallApp, launchApp, rebootDevice or launchWebDriverAgent
\* is called for device dev: up to the await of listDevices in
\* ensureTunnelForDevice.
Operation(dev) ==
    /\ UNCHANGED <<relayVars, ringVars, streamerVars, portVars, splitterVars,
                   uploaderVars>>
    /\ Len(calls) < MaxTunnelCalls
    /\ calls' = Append(calls, [dev |-> dev, pc |-> "listing"])
    /\ UNCHANGED <<tunnelStarted, tunnelProcess, tunnels>>

\* listDevices resolves for call k: ensureTunnelForDevice throws for an
\* unknown udid, goes on for a device below iOS 17, and calls startTunnel
\* otherwise, which returns when tunnelStarted is set and else spawns the
\* daemon and waits two seconds.
ListDevicesResolves(k) ==
    /\ UNCHANGED <<relayVars, ringVars, streamerVars, portVars, splitterVars,
                   uploaderVars>>
    /\ k \in 1..Len(calls)
    /\ calls[k].pc = "listing"
    /\ IF calls[k].dev = "unknown"
       THEN /\ calls' = [calls EXCEPT ![k].pc = "failed"]
            /\ UNCHANGED <<tunnelProcess, tunnels>>
       ELSE IF calls[k].dev = "ios16" \/ tunnelStarted
       THEN /\ calls' = [calls EXCEPT ![k].pc = "command"]
            /\ UNCHANGED <<tunnelProcess, tunnels>>
       ELSE /\ tunnels' = Append(tunnels, "running")
            /\ tunnelProcess' = Len(tunnels) + 1
            /\ calls' = [calls EXCEPT ![k].pc = "waiting"]
    /\ UNCHANGED tunnelStarted

\* listDevices rejects for call k (`ios list` failed)
ListDevicesRejects(k) ==
    /\ UNCHANGED <<relayVars, ringVars, streamerVars, portVars, splitterVars,
                   uploaderVars>>
    /\ k \in 1..Len(calls)
    /\ calls[k].pc = "listing"
    /\ calls' = [calls EXCEPT ![k].pc = "failed"]
    /\ UNCHANGED <<tunnelStarted, tunnelProcess, tunnels>>

\* the two seconds of startTunnel are over for call k
TunnelDelayElapsed(k) ==
    /\ UNCHANGED <<relayVars, ringVars, streamerVars, portVars, splitterVars,
                   uploaderVars>>
    /\ k \in 1..Len(calls)
    /\ calls[k].pc = "waiting"
    /\ tunnelStarted' = TRUE
    /\ calls' = [calls EXCEPT ![k].pc = "command"]
    /\ UNCHANGED <<tunnelProcess, tunnels>>

\* the go-ios command of call k settles
CommandSettles(k) ==
    /\ UNCHANGED <<relayVars, ringVars, streamerVars, portVars, splitterVars,
                   uploaderVars>>
    /\ k \in 1..Len(calls)
    /\ calls[k].pc = "command"
    /\ calls' = [calls EXCEPT ![k].pc = "done"]
    /\ UNCHANGED <<tunnelStarted, tunnelProcess, tunnels>>

\* stopTunnel(): kills the process group of this.tunnelProcess when the
\* tunnel counts as started, and does nothing otherwise
StopTunnel ==
    /\ UNCHANGED <<relayVars, ringVars, streamerVars, portVars, splitterVars,
                   uploaderVars>>
    /\ IF tunnelProcess # NoTunnel /\ tunnelStarted
       THEN /\ tunnels' = [tunnels EXCEPT ![tunnelProcess] = "killed"]
            /\ tunnelStarted' = FALSE
       ELSE UNCHANGED <<tunnelStarted, tunnels>>
    /\ UNCHANGED <<tunnelProcess, calls>>

TunnelNext ==
    \/ \E dev \in TunnelDevices : Operation(dev)
    \/ \E k \in 1..MaxTunnelCalls : ListDevicesResolves(k)
    \/ \E k \in 1..MaxTunnelCalls : ListDevicesRejects(k)
    \/ \E k \in 1..MaxTunnelCalls : TunnelDelayElapsed(k)
    \/ \E k \in 1..MaxTunnelCalls : CommandSettles(k)
    \/ StopTunnel

\* ======================================================== specifications
\* The relay servers.
Init == RelayInit /\ RingIdle /\ StreamerInit /\ SplitterIdle /\ PortInit /\ UploaderInit /\ TunnelInit
Next == RelayNext
Spec == Init /\ [][Next]_vars

\* The ring buffer alone.
InitRing == RelayInit /\ variant = "ios" /\ RingInit /\ StreamerInit /\ SplitterIdle /\ PortInit /\ UploaderInit /\ TunnelInit
NextRing == RingNext
SpecRing == InitRing /\ [][NextRing]_vars

\* IOSLogStreamer alone.
InitStreamer == RelayInit /\ variant = "ios" /\ RingIdle /\ StreamerInit /\ SplitterIdle /\ PortInit /\ UploaderInit /\ TunnelInit
NextStreamer == StreamerNext
SpecStreamer == InitStreamer /\ [][NextStreamer]_vars

\* The start operations: the relays' start calls, made by the connection
\* handlers, next to startLogs of IOSLogStreamer.
InitStart == Init
NextStart ==
    \/ \E w \in Sockets : ConnectIos(w)
    \/ \E w \in Sockets : ConnectAdb(w)
    \/ \E w \in Sockets : OpenLogcatResolve(w)
    \/ \E s \in SessionIds : Line(s)
    \/ \E u \in Udids : StartLogs(u)
    \/ \E i \in 1..MaxCalls : ProcExit(i)
    \/ \E i \in 1..MaxCalls : StreamerProcClose(i)
SpecStart == InitStart /\ [][NextStart]_vars

\* The stdout listener of IOSLogStreamer alone.
InitSplitter ==
    /\ RelayInit /\ variant = "ios" /\ RingIdle /\ StreamerInit /\ PortInit
    /\ UploaderInit /\ TunnelInit
    /\ SplitterInit
NextSplitter == SplitterNext
SpecSplitter == InitSplitter /\ [][NextSplitter]_vars

\* GoIosWrapper alone.
InitTunnel == Init
NextTunnel == TunnelNext
SpecTunnel == InitTunnel /\ [][NextTunnel]_vars

\* FileChunkUploader alone.
InitUploader == Init
NextUploader == UploaderNext
SpecUploader == InitUploader /\ [][NextUploader]_vars

\* The relay with one consumer on each of two devices.
InitFrame ==
    /\ RelayInitFor([w \in Sockets |-> IF w = "w1" THEN "d1" ELSE "d2"])
    /\ RingIdle /\ StreamerInit /\ SplitterIdle /\ PortInit /\ UploaderInit /\ TunnelInit
NextFrame == RelayNext
SpecFrame == InitFrame /\ [][NextFrame]_vars

\* The relay with lines that may be empty: attach, lines and ticks.
InitLines == Init

NextLines ==
    \/ \E w \in Sockets : ConnectIos(w)
    \/ \E w \in Sockets : ConnectAdb(w)
    \/ \E w \in Sockets : OpenLogcatResolve(w)
    \/ \E s \in SessionIds : Line(s)
    \/ \E s \in SessionIds : BlankLine(s)
    \/ \E s \in SessionIds : BatchTimer(s)

SpecLines == InitLines /\ [][NextLines]_vars

\* PortManager alone.
InitPorts == RelayInit /\ variant = "ios" /\ RingIdle /\ StreamerInit /\ SplitterIdle /\ PortInit /\ UploaderInit /\ TunnelInit
NextPorts == PortNext
SpecPorts == InitPorts /\ [][NextPorts]_vars

\* PortManager with the event loop's guarantee: a promise reaction that is
\* due runs, and the test server of checkPortAvailability gets its event. The
\* callers are free to call or not; they ask for one port or none, and release
\* the whole range or something that is not an array.
NextPortsLive ==
    \/ \E n \in 0..1 : GetFreePorts(n)
    \/ ReleasePorts(Ports)
    \/ ReleasePortsNotArray
    \/ \E k \in 1..MaxOperations : AllocateStart(k)
    \/ \E k \in 1..MaxOperations : AllocateStep(k)
    \/ \E k \in 1..MaxOperations : Resolve(k)
    \/ \E k \in 1..MaxOperations : \E isAvailable \in BOOLEAN : CheckPortAvailability(k, isAvailable)
    \/ \E k \in 1..MaxOperations : ReleasePortsInternal(k)

PortFairness ==
    \A k \in 1..MaxOperations :
        /\ WF_vars(AllocateStart(k))
        /\ WF_vars(AllocateStep(k))
        /\ WF_vars(Resolve(k))
        /\ WF_vars(\E isAvailable \in BOOLEAN : CheckPortAvailability(k, isAvailable))
        /\ WF_vars(ReleasePortsInternal(k))

SpecPortsLive == InitPorts /\ [][NextPortsLive]_vars /\ PortFairness

\* ================================================================ claims
SessionsOf(d) == {s \in 1..Len(sess) : sess[s].udid = d}
Alive(s) == Live(s) \/ sess[s].batchTimer
Attached(s) == {w \in sess[s].sockets : wsOpen[w]}
LastN(seq, n) == SubSeq(seq, IF Len(seq) > n THEN Len(seq) - n + 1 ELSE 1, Len(seq))

AttachStep(w) == wsPc[w] # "attached" /\ wsPc'[w] = "attached"
CloseStep(w) == wsPc[w] = "attached" /\ wsPc'[w] = "closed"
ClearStep(w) == nClears' = nClears + 1 /\ inbox'[w] # inbox[w]
TickStep(s) == s \in 1..Len(sess) /\ sess[s].pending # <<>> /\ sess'[s].pending = <<>>
ExitStep(s) ==
    /\ s \in 1..Len(sess)
    /\ Live(s)
    /\ sess'[s].up = "exited"
    /\ sess'[s].errored = sess[s].errored

\* C1: at most one session per device id is alive at any time (alive: its
\* upstream has been spawned and has not exited, or its batch timer is active).
C1_OneAliveSessionPerDevice ==
    \A d \in Devices : Cardinality({s \in SessionsOf(d) : Alive(s)}) <= 1

\* C2: as long as nothing but attaches has happened on a device id (no
\* connection closed, no upstream exit, error or failed start), the consumers
\* that arrived for it caused exactly one spawn / one openLogcat call, and the
\* attached ones share that one registered session.
Undisturbed(d) ==
    /\ \A w \in Sockets : udidOf[w] = d =>
          wsOpen[w] /\ wsPc[w] \in {"idle", "starting", "attached"}
    /\ \A s \in SessionsOf(d) : sess[s].up \in {"opening", "running"} /\ ~sess[s].errored

C2_OneSpawnForTwoAttaches ==
    \A d \in Devices :
        (Undisturbed(d) /\ \E w \in Sockets : udidOf[w] = d /\ wsPc[w] # "idle")
        => /\ Cardinality(SessionsOf(d)) = 1
           /\ \A w \in Sockets :
                 (udidOf[w] = d /\ wsPc[w] = "attached")
                 => wsState[w] = devices[d] /\ w \in sess[devices[d]].sockets

C2_Witness ==
    /\ variant = "adb"
    /\ wsPc["w1"] = "starting"
    /\ wsPc["w2"] = "attached"
    /\ Undisturbed("d1")
    /\ Cardinality(SessionsOf("d1")) = 1

\* C3: after any sequence of pushes the ring buffer's getAll(), and likewise
\* the push/shift array buffer, is the last min(N, capacity) pushed items in
\* push order.
C3_SnapshotIsLastPushed ==
    /\ GetAll(TheRing) = LastN(pushed, capacity)
    /\ arrayBuffer = LastN(pushed, LOG_BUFFER_SIZE)

C3_Witness ==
    /\ capacity = 2
    /\ pushed = <<"a", "b", "b", "a", "a">>
    /\ GetAll(TheRing) = <<"a", "a">>

\* C4 (as claimed): a consumer that attaches after M lines have arrived is sent
\* exactly one backlog batch, its first message, holding the last
\* min(M, capacity) lines in arrival order, and none when no line has arrived.
BacklogSent(w, lines) ==
    /\ inbox[w] = <<>>
    /\ inbox'[w] = IF lines = <<>> THEN <<>> ELSE <<BatchMsg(lines, TRUE)>>

C4_BacklogOfAllArrived ==
    [][\A w \in Sockets :
         (AttachStep(w) /\ wsOpen[w])
         => BacklogSent(w, LastN(sess'[wsState'[w]].arrived, LOG_BUFFER_SIZE))]_vars

\* C4 (amended): the backlog batch holds the last min(M', capacity) lines, M'
\* being the lines that arrived since the session's last clear request; it is
\* the consumer's first message and the only backlog batch it ever gets.
SinceClear(s) == SubSeq(s.arrived, s.clearedAt + 1, Len(s.arrived))

C4_BacklogSinceClear ==
    /\ [][\A w \in Sockets :
            (AttachStep(w) /\ wsOpen[w])
            => BacklogSent(w, LastN(SinceClear(sess'[wsState'[w]]), LOG_BUFFER_SIZE))]_vars
    /\ [](\A w \in Sockets : \A i \in 1..Len(inbox[w]) : inbox[w][i].backlog => i = 1)

C4_Witness ==
    \E w \in Sockets :
        /\ wsPc[w] = "attached"
        /\ inbox[w] # <<>>
        /\ inbox[w][1] = BatchMsg(<<2, 3>>, TRUE)
        /\ sess[wsState[w]].arrived = <<1, 2, 3>>

\* C5: when the only remaining consumer of a device id detaches, the upstream
\* is signaled, the batch timer cancelled and the id no longer registered; a
\* detach that leaves another consumer of the id attached changes neither the
\* registry entry nor that consumer's session.
OtherConsumers(w) ==
    {v \in Sockets \ {w} : udidOf[v] = udidOf[w] /\ wsPc[v] = "attached" /\ wsOpen[v]}

C5_DetachStopsOnlyWhenLast ==
    [][\A w \in Sockets :
         CloseStep(w) =>
            IF OtherConsumers(w) = {}
            THEN /\ devices'[udidOf[w]] = NoSession
                 /\ sess'[wsState[w]].up # "running"
                 /\ ~sess'[wsState[w]].batchTimer
            ELSE /\ devices'[udidOf[w]] = devices[udidOf[w]]
                 /\ \A v \in OtherConsumers(w) :
                       /\ sess'[wsState[v]].up = sess[wsState[v]].up
                       /\ sess'[wsState[v]].batchTimer = sess[wsState[v]].batchTimer]_vars

\* C6: on every batch tick each open consumer of the session whose buffered
\* amount is at or above the threshold gets nothing, and every one below the
\* threshold gets the batch, the same lines for all, appended to what it had.
C6_SlowConsumerSkippedAlone ==
    [][\A s \in SessionIds :
         TickStep(s) =>
            \A w \in Attached(s) :
                inbox'[w] = IF bufferedAmount[w] >= MAX_WS_BUFFERED
                            THEN inbox[w]
                            ELSE Append(inbox[w], BatchMsg(sess[s].pending, FALSE))]_vars

C6_Witness ==
    /\ wsState["w1"] = wsState["w2"]
    /\ wsPc["w1"] = "attached" /\ wsPc["w2"] = "attached"
    /\ inbox["w1"] = <<BatchMsg(<<1>>, FALSE), BatchMsg(<<3>>, FALSE)>>
    /\ inbox["w2"] = <<BatchMsg(<<1>>, FALSE), BatchMsg(<<2>>, FALSE),
                       BatchMsg(<<3>>, FALSE)>>

\* C7 (as claimed): the lines that arrived since the previous tick reach every
\* attached consumer as exactly one live batch, in arrival order; an exit of the
\* upstream sends each of them a stopped event, after which it gets no batch.
NoBatchAfterStop ==
    \A w \in Sockets : \A i, j \in 1..Len(inbox[w]) :
        (i < j /\ inbox[w][i].ev = "stop") => inbox[w][j].ev # "batch"

StoppedOnExit ==
    \A s \in SessionIds :
        ExitStep(s) => \A w \in Attached(s) : inbox'[w] = Append(inbox[w], StopMsg)

C7_EveryConsumerGetsTheBatch ==
    /\ [][/\ \A s \in SessionIds :
               TickStep(s) =>
                  \A w \in Attached(s) :
                      inbox'[w] = Append(inbox[w], BatchMsg(sess[s].pending, FALSE))
          /\ StoppedOnExit]_vars
    /\ []NoBatchAfterStop

\* C7 (amended): the same for every attached consumer whose buffered amount is
\* below the threshold at the tick.
C7_UnsaturatedConsumerGetsTheBatch ==
    /\ [][/\ \A s \in SessionIds :
               TickStep(s) =>
                  \A w \in Attached(s) :
                      bufferedAmount[w] < MAX_WS_BUFFERED
                      => inbox'[w] = Append(inbox[w], BatchMsg(sess[s].pending, FALSE))
          /\ StoppedOnExit]_vars
    /\ []NoBatchAfterStop

C7_Witness ==
    \E w \in Sockets : inbox[w] = <<BatchMsg(<<1, 2, 3>>, FALSE), StopMsg>>

\* C9 (as claimed): a clear request leaves the session's buffer and pending
\* queue as they were and is acknowledged to the requester.
C9_ClearKeepsSharedBuffer ==
    [][\A w \in Sockets :
         ClearStep(w) =>
            /\ sess'[wsState[w]].buffer = sess[wsState[w]].buffer
            /\ sess'[wsState[w]].pending = sess[wsState[w]].pending
            /\ inbox'[w] = Append(inbox[w], ClearedMsg)]_vars

\* C9 (amended): a clear request empties the session's shared buffer, leaves the
\* pending queue as it was, is acknowledged to the requester alone and sends
\* nothing to any other consumer.
C9_ClearEmptiesSharedBuffer ==
    [][\A w \in Sockets :
         ClearStep(w) =>
            /\ sess'[wsState[w]].buffer = <<>>
            /\ sess'[wsState[w]].pending = sess[wsState[w]].pending
            /\ inbox'[w] = Append(inbox[w], ClearedMsg)
            /\ \A v \in Sockets \ {w} : inbox'[v] = inbox[v]]_vars

C9_Witness ==
    /\ Count(inbox["w1"], "cleared") = 1
    /\ wsState["w2"] = wsState["w1"]
    /\ sess[wsState["w1"]].arrived = <<1, 2>>
    /\ inbox["w2"] = <<BatchMsg(<<2>>, TRUE)>>

\* ---------------------------------------------------------- IOSLogStreamer
StopStep == lastCall'.n = lastCall.n + 1 /\ lastCall'.op = "stop"
Sessions(u) == {i \in 1..Len(heap) : heap[i].udid = u}
Latest(u) == CHOOSE i \in Sessions(u) : \A j \in Sessions(u) : j <= i

\* C8 (as claimed): stopLogs on a session that was already stopped, or whose
\* process is already gone, raises no error, delivers no signal and emits no
\* event, however often it is called.
C8_StopNeverFailsOnceStopped ==
    [][\A u \in Udids :
         (/\ StopStep
          /\ lastCall'.udid = u
          /\ Sessions(u) # {}
          /\ (heap[Latest(u)].stopped \/ heap[Latest(u)].process # "running"))
         => /\ lastCall'.res # "threw"
            /\ heap'[Latest(u)].signals = heap[Latest(u)].signals
            /\ emitted' = emitted]_vars

\* C8 (amended): stopLogs never emits an event; on a registered session that
\* was already stopped it raises no error and changes nothing (no further
\* signal); once the session is no longer registered it throws.
C8_StopIdempotentWhileRegistered ==
    [][\A u \in Udids :
         (StopStep /\ lastCall'.udid = u)
         => /\ emitted' = emitted
            /\ sessions' = sessions
            /\ IF ~SessionsHas(u)
               THEN lastCall'.res = "threw" /\ heap' = heap
               ELSE heap[sessions[u]].stopped
                    => lastCall'.res \in {"noop", "gone"} /\ heap' = heap]_vars

C8_Witness ==
    /\ lastCall.op = "stop"
    /\ lastCall.res = "noop"
    /\ SessionsHas(lastCall.udid)
    /\ heap[sessions[lastCall.udid]].signals = 1

\* C10: every close of a session's process, spontaneous or after a stop signal,
\* emits exactly one stopped event and then tears the session down (file
\* stream ended, registry entry removed).
C10_EveryExitEmitsStopped ==
    [][\A i \in 1..Len(heap) :
         (heap[i].process = "exited" /\ heap'[i].process = "closed")
         => /\ emitted' = Append(emitted, Event("stopped", heap[i].udid))
            /\ ~heap'[i].fileOpen
            /\ sessions'[heap[i].udid] # i]_vars

\* ------------------------------------------------------------ relay, again
Range(seq) == {seq[i] : i \in 1..Len(seq)}

\* C11: no consumer is sent the same log line twice: the batches a consumer
\* received, its backlog batch included, hold pairwise different lines.
C11_NoLineDeliveredTwice ==
    \A w \in Sockets : \A i, j \in 1..Len(inbox[w]) :
        (i < j /\ inbox[w][i].ev = "batch" /\ inbox[w][j].ev = "batch")
        => Range(inbox[w][i].lines) \cap Range(inbox[w][j].lines) = {}

\* C13: a detach by a consumer whose own session is not the one registered for
\* its device id (it was torn down, or nothing is registered) leaves the
\* registry and the registered session as they were.
StaleDetach(w) == CloseStep(w) /\ devices[udidOf[w]] # wsState[w]

C13_StaleDetachIsNoOp ==
    [][\A w \in Sockets :
         StaleDetach(w) =>
            /\ devices' = devices
            /\ devices[udidOf[w]] # NoSession
               => sess'[devices[udidOf[w]]] = sess[devices[udidOf[w]]]]_vars

\* C17: a teardown of a session that was torn down before (its timer is
\* cancelled and it is not the registered session any more), be it by an
\* upstream exit or error event or by its last consumer's detach, leaves the
\* registry and every other session as they were.
TornDown(s) ==
    /\ ~sess[s].batchTimer
    /\ sess[s].up # "opening"
    /\ devices[sess[s].udid] # s

UpstreamEventStep(s) ==
    \/ sess[s].up # "exited" /\ sess'[s].up = "exited"
    \/ ~sess[s].errored /\ sess'[s].errored

LastDetachStep(s) ==
    \E w \in Sockets : CloseStep(w) /\ wsState[w] = s /\ sess'[s].sockets = {}

C17_SecondTeardownChangesNothing ==
    [][\A s \in 1..Len(sess) :
         (TornDown(s) /\ (UpstreamEventStep(s) \/ LastDetachStep(s)))
         => /\ devices' = devices
            /\ \A t \in 1..Len(sess) : t # s => sess'[t] = sess[t]]_vars

\* C19: every consumer that is still attached (its connection is open and it
\* is in a session's consumer set) is in the session registered for its id.
C19_ConsumerBelongsToRegisteredSession ==
    \A s \in 1..Len(sess) : \A w \in Attached(s) : devices[sess[s].udid] = s

\* C20: no session is registered, with its upstream and its batch timer
\* running, while no consumer of its device id has an open connection.
OpenConsumers(d) ==
    {w \in Sockets : udidOf[w] = d /\ wsOpen[w] /\ wsPc[w] \in {"starting", "attached"}}

C20_NoSessionWithoutOpenConsumer ==
    \A d \in Devices :
        (/\ devices[d] # NoSession
         /\ sess[devices[d]].up = "running"
         /\ sess[devices[d]].batchTimer)
        => OpenConsumers(d) # {}

\* C12: a start that failed leaves nothing half-created: the failed session is
\* not registered, has no batch timer and holds no consumer, and the consumer
\* whose attach started it was sent one error message.
StartFailedFor(w) == wsPc[w] = "rejected" \/ (variant = "ios" /\ wsPc[w] = "crashed")

C12_FailedStartLeavesNothing ==
    /\ \A s \in 1..Len(sess) :
          sess[s].up \in {"failed", "unspawned"}
          => /\ devices[sess[s].udid] # s
             /\ ~sess[s].batchTimer
             /\ sess[s].sockets = {}
    /\ \A w \in Sockets : StartFailedFor(w) => Count(inbox[w], "error") = 1

\* C14: a chunk on the upstream's error stream is sent as an error message to
\* every attached consumer of the session, enters neither the buffer nor the
\* pending queue, and leaves the session registered and running with its timer.
StderrStep(s) == s \in 1..Len(sess) /\ sess'[s].stderr = sess[s].stderr + 1

C14_ErrorStreamReachesConsumers ==
    [][\A s \in SessionIds :
         StderrStep(s) =>
            /\ \A w \in Attached(s) : inbox'[w] = Append(inbox[w], ErrorMsg)
            /\ sess'[s].buffer = sess[s].buffer
            /\ sess'[s].pending = sess[s].pending
            /\ sess'[s].up = sess[s].up
            /\ sess'[s].batchTimer = sess[s].batchTimer
            /\ devices' = devices]_vars

\* C18: when a connection's attach completes, the connection is in the
\* consumer set of the session registered for its device id at that moment,
\* and that session is the one its handlers hold.
C18_AttachedToRegisteredSession ==
    [][\A w \in Sockets :
         AttachStep(w) =>
            /\ devices'[udidOf[w]] # NoSession
            /\ w \in sess'[devices'[udidOf[w]]].sockets
            /\ wsState'[w] = devices'[udidOf[w]]]_vars

C18_Witness ==
    /\ Len(sess) = 2
    /\ sess[1].up = "exited"
    /\ devices["d1"] = 2
    /\ wsPc["w2"] = "attached"
    /\ "w2" \in sess[2].sockets
    /\ "w1" \in sess[1].sockets

\* ------------------------------------------------------------- PortManager
PortsHandedOutOnce(ev) ==
    \A i, j \in 1..Len(portLog) :
        (i < j /\ portLog[i].ev = ev /\ portLog[j].ev = ev)
        => \A q \in portLog[i].ports \cap portLog[j].ports :
              \E k \in (i + 1)..(j - 1) :
                  portLog[k].ev = "released" /\ q \in portLog[k].ports

DistinctPortsInRange ==
    \A k \in 1..Len(operations) :
        (operations[k].kind = "get" /\ operations[k].pc \in {"completed", "resolved"})
        => /\ Len(operations[k].allocatedPorts) = operations[k].n
           /\ Cardinality(Range(operations[k].allocatedPorts)) = operations[k].n
           /\ Range(operations[k].allocatedPorts) \subseteq Ports

ReservedAt(ev) ==
    (portLog # <<>> /\ portLog[Len(portLog)].ev = ev)
    => portLog[Len(portLog)].ports \subseteq reservedPorts

\* C16 (as claimed): a port returned by two getFreePorts calls was released
\* between the two returns; every resolved getFreePorts(n) returned n distinct
\* ports within [minPort, maxPort]; the ports of a call are all reserved when
\* its promise resolves.
C16_ReturnedPortsAreReserved ==
    /\ PortsHandedOutOnce("returned")
    /\ DistinctPortsInRange
    /\ ReservedAt("returned")

\* C16 (amended): a port allocated by two getFreePorts calls was released
\* between the two allocations; every getFreePorts(n) that succeeds yields n
\* distinct ports within [minPort, maxPort]; they are all reserved when
\* allocatePorts returns.
C16_AllocatedPortsAreReserved ==
    /\ PortsHandedOutOnce("allocated")
    /\ DistinctPortsInRange
    /\ ReservedAt("allocated")

C16_Witness ==
    /\ Len(operations) = 3
    /\ \A k \in 1..3 : operations[k].pc = "resolved"
    /\ operations[1].allocatedPorts = <<2, 3>>
    /\ operations[2].ports = {3}
    /\ operations[3].allocatedPorts = <<3, 1>>
    /\ portLog[Len(portLog)] = Returned({1, 3})

\* ------------------------------------------------------------------ start
StartCallStep(u) ==
    lastCall'.n = lastCall.n + 1 /\ lastCall'.op = "start" /\ lastCall'.udid = u

\* a connection handler calls the relay's start function
ConnectStep(w) == wsPc[w] = "idle" /\ wsPc'[w] # "idle"

StartLogsThrowsWhenRegistered ==
    \A u \in Udids :
        (StartCallStep(u) /\ sessions[u] # NoSession)
        => /\ lastCall'.res = "threw"
           /\ heap' = heap
           /\ sessions' = sessions
           /\ emitted' = emitted

\* C15 (as claimed): a start for a device id that has a session fails with an
\* error, creates no second session and leaves the existing one unchanged. A
\* failed start of a relay is what its connection handler reports to the
\* socket before closing it.
C15_StartOnExistingSessionFails ==
    [][/\ StartLogsThrowsWhenRegistered
       /\ \A w \in Sockets :
             (ConnectStep(w) /\ devices[udidOf[w]] # NoSession)
             => /\ sess' = sess
                /\ devices' = devices
                /\ inbox'[w] = Append(inbox[w], ErrorMsg)
                /\ wsPc'[w] = "rejected"]_vars

\* C15 (amended): startLogs for a udid that has a session throws, spawns
\* nothing and leaves the session and the registry unchanged; the start
\* function of a relay returns without error for a registered id, creating no
\* session and changing nothing, and the connection is attached to the
\* registered session.
C15_OnlyStartLogsFails ==
    [][/\ StartLogsThrowsWhenRegistered
       /\ \A w \in Sockets :
             (ConnectStep(w) /\ devices[udidOf[w]] # NoSession)
             => /\ sess' = [sess EXCEPT ![devices[udidOf[w]]].sockets = @ \cup {w}]
                /\ devices' = devices
                /\ Count(inbox'[w], "error") = 0
                /\ wsPc'[w] = "attached"
                /\ wsState'[w] = devices[udidOf[w]]]_vars

C15_Witness ==
    /\ lastCall.op = "start"
    /\ lastCall.res = "threw"
    /\ Len(heap) = 1
    /\ Len(sess) = 1
    /\ sess[1].sockets = {"w1", "w2"}
    /\ sess[1].buffer # <<>>
    /\ inbox["w2"] # <<>>

\* ------------------------------------------------------ relay: batch ticks
\* a tick that took a batch from the pending queue of session s
DrainStep(s) == s \in 1..Len(sess) /\ sess'[s].drained # sess[s].drained

\* C21: every batch tick with lines pending takes them all and leaves the
\* queue empty, and the batches taken so far, one after the other, followed by
\* what is still pending are the lines the session received, in arrival order.
C21_DrainsArePrefixOfArrivals ==
    /\ [](\A s \in 1..Len(sess) : sess[s].drained \o sess[s].pending = sess[s].arrived)
    /\ [][\A s \in SessionIds :
            DrainStep(s) =>
               /\ sess'[s].drained = sess[s].drained \o sess[s].pending
               /\ sess'[s].pending = <<>>
               /\ \A w \in Sockets :
                     inbox'[w] \in {inbox[w],
                                    Append(inbox[w], BatchMsg(sess[s].pending, FALSE))}]_vars

C21_Witness ==
    \E w \in Sockets :
        /\ wsPc[w] = "attached"
        /\ sess[wsState[w]].drained = <<1, 2, 3>>
        /\ inbox[w] = <<BatchMsg(<<1>>, FALSE), BatchMsg(<<2, 3>>, FALSE)>>

\* C22: no consumer is ever sent a batch message without lines.
C22_NoEmptyBatch ==
    \A w \in Sockets : \A i \in 1..Len(inbox[w]) :
        inbox[w][i].ev = "batch" => inbox[w][i].lines # <<>>

\* a session whose timer is running finds its queue empty again after a batch
C22_Witness ==
    \E w \in Sockets :
        /\ wsPc[w] = "attached"
        /\ wsOpen[w]
        /\ sess[wsState[w]].batchTimer
        /\ sess[wsState[w]].pending = <<>>
        /\ sess[wsState[w]].arrived = <<1>>
        /\ inbox[w] = <<BatchMsg(<<1>>, FALSE)>>

\* C23: a consumer that is skipped by a batch tick because its buffered amount
\* is at or above the threshold is sent a notice of the dropped batch.
C23_DroppedBatchIsSurfaced ==
    [][\A s \in SessionIds :
         DrainStep(s) =>
            \A w \in Attached(s) :
                bufferedAmount[w] >= MAX_WS_BUFFERED => inbox'[w] # inbox[w]]_vars

\* C24: a batch message, live or backlog, is only ever sent to a consumer whose
\* buffered amount is below the threshold.
BatchSentTo(w) ==
    /\ Len(inbox'[w]) = Len(inbox[w]) + 1
    /\ inbox'[w][Len(inbox'[w])].ev = "batch"

C24_NoBatchToSaturatedConsumer ==
    [][\A w \in Sockets :
         BatchSentTo(w) => bufferedAmount[w] < MAX_WS_BUFFERED]_vars

C24_Witness ==
    /\ wsState["w1"] = wsState["w2"]
    /\ bufferedAmount["w2"] = MAX_WS_BUFFERED
    /\ inbox["w2"] = <<BatchMsg(<<1>>, TRUE)>>
    /\ inbox["w1"] = <<BatchMsg(<<1>>, FALSE), BatchMsg(<<2>>, FALSE)>>

\* C27: a session's buffer never holds more than LOG_BUFFER_SIZE lines, and a
\* line that arrives when the buffer is full evicts the oldest line and no other.
LineStep(s) == s \in 1..Len(sess) /\ Len(sess'[s].arrived) = Len(sess[s].arrived) + 1

C27_BufferBoundedEvictsOldest ==
    /\ [](\A s \in 1..Len(sess) : Len(sess[s].buffer) <= LOG_BUFFER_SIZE)
    /\ [][\A s \in SessionIds :
            LineStep(s) =>
               LET line == sess'[s].arrived[Len(sess'[s].arrived)]
               IN sess'[s].buffer =
                     IF Len(sess[s].buffer) = LOG_BUFFER_SIZE
                     THEN Append(Tail(sess[s].buffer), line)
                     ELSE Append(sess[s].buffer, line)]_vars

C27_Witness ==
    \E s \in 1..Len(sess) :
        /\ sess[s].arrived = <<1, 2, 3>>
        /\ sess[s].buffer = <<2, 3>>
        /\ sess[s].pending = <<3>>

\* C30: when the upstream exits while consumers are attached, no line is left
\* in the pending queue: what was pending has been sent before the stop event.
C30_NothingPendingAtExit ==
    [][\A s \in SessionIds :
         (ExitStep(s) /\ Attached(s) # {}) => sess[s].pending = <<>>]_vars

\* C26: blank lines are in no session's buffer or pending queue and in no
\* batch, backlog or live, sent to a consumer.
C26_NoBlankLineKept ==
    /\ \A s \in 1..Len(sess) :
          Blank \notin Range(sess[s].buffer) \cup Range(sess[s].pending)
    /\ \A w \in Sockets : \A i \in 1..Len(inbox[w]) :
          inbox[w][i].ev = "batch" => Blank \notin Range(inbox[w][i].lines)

\* a step that changes the registry entry of device d or a session of d
Touches(d) ==
    \/ devices'[d] # devices[d]
    \/ \E s \in 1..Len(sess) : sess[s].udid = d /\ sess'[s] # sess[s]
    \/ \E s \in (Len(sess) + 1)..Len(sess') : sess'[s].udid = d

\* C28: no step changes the sessions or the registry entries of two devices:
\* an operation on one device, a session-fatal error included, leaves the
\* buffer, pending queue, consumers, timer, process and registry entry of every
\* other device as they were.
C28_OtherDevicesUnchanged ==
    [][\A d, e \in Devices : d # e => ~(Touches(d) /\ Touches(e))]_vars

\* ------------------------------------------------- IOSLogStreamer: stdout
\* the lines of the whole output: its terminated segments that are not blank
LinesOf(text) == Kept(Popped(Split(text)))

IsPrefix(p, q) == Len(p) <= Len(q) /\ SubSeq(q, 1, Len(p)) = p

\* C25: whatever the chunks, the lines emitted so far are the first lines of
\* the whole output, and once all of it has been read they are exactly the
\* terminated lines of the whole output; what follows the last terminator is
\* never emitted.
C25_SameLinesForAnyChunking ==
    /\ IsPrefix(logged, LinesOf(ToStringUtf8(written)))
    /\ unread = <<>> => logged = LinesOf(ToStringUtf8(written))

\* -------------------------------------------------- PortManager: failures
\* operation k fails in this step
FailStep(k) ==
    /\ k \in 1..Len(operations)
    /\ operations[k].pc # "rejected"
    /\ operations'[k].pc = "rejected"

\* C29: a failed operation does not stall the queue. Operations start in call
\* order, each after all earlier ones have settled; a failure is the outcome
\* of the failed call alone, which was running or had a bad argument, and
\* changes no other operation; and again and again every operation enqueued
\* so far, after a failed one too, has resolved or rejected.
C29_FailureDoesNotStallQueue ==
    /\ [](\A k \in 1..Len(operations) :
            operations[k].pc # "queued" =>
               \A j \in 1..(k - 1) :
                   operations[j].pc \in {"completed", "resolved", "rejected"})
    /\ [][\A k \in 1..MaxOperations :
            FailStep(k) =>
               /\ \/ operations[k].pc = "running"
                  \/ operations[k].kind = "get" /\ operations[k].n <= 0
                  \/ operations[k].kind = "release" /\ ~operations[k].isArray
               /\ \A j \in 1..Len(operations) :
                     j # k => operations'[j] = operations[j]]_vars
    /\ []<>(\A k \in 1..Len(operations) :
                operations[k].pc \in {"resolved", "rejected"})

\* a rejected getFreePorts and a throwing releasePorts, then a call that got
\* its ports
C29_Witness ==
    /\ Len(operations) = 3
    /\ operations[1].kind = "get" /\ operations[1].pc = "rejected"
    /\ operations[2].kind = "release" /\ operations[2].pc = "rejected"
    /\ operations[3].kind = "get" /\ operations[3].pc = "resolved"
    /\ Len(operations[3].allocatedPorts) = 1

\* C31: when a getFreePorts call fails, no port that the call itself reserved
\* is still reserved: the reserved set is what it was before the call.
C31_FailedCallReservesNothing ==
    [][\A k \in 1..MaxOperations :
         (FailStep(k) /\ operations[k].kind = "get") =>
            \A i \in 1..Len(operations[k].allocatedPorts) :
                operations[k].allocatedPorts[i] \notin reservedPorts']_vars

\* ------------------------------------------------------ FileChunkUploader
\* C32: at most one uploadNextChunk call is awaiting a fetch or a retry delay.
C32_OneUploadChain == Cardinality(Active(chains)) <= 1

\* a call of handleUploadComplete
CompleteStep ==
    /\ chains' # chains
    /\ ~isPaused' /\ ~isCancelled'
    /\ currentChunkIndex' >= Len(chunks')
    /\ uploadStatus' = "completed"

\* C33: when the upload is reported complete every chunk has had exactly one
\* successful request since the last Start, and from Start on uploadedChunks
\* is at most chunks.length and equal to currentChunkIndex.
C33_CompleteMeansEachChunkOnce ==
    /\ [][CompleteStep => \A i \in 1..Len(chunks') : successes'[i] = 1]_vars
    /\ [](successes # <<>> =>
            /\ uploadedChunks <= Len(chunks)
            /\ uploadedChunks = currentChunkIndex)

\* chain c starts a request in this step
FetchStarts(c) ==
    /\ c \in 1..Len(chains')
    /\ chains'[c].pc = "fetching"
    /\ c \in 1..Len(chains) => chains[c].pc # "fetching"

\* the retry delay of chain c ends in this step
RetryStep(c) ==
    /\ c \in 1..Len(chains)
    /\ chains[c].pc = "waiting"
    /\ chains'[c].pc # "waiting"

ResumeStep == disabled.resumeBtn = FALSE /\ disabled'.resumeBtn = TRUE /\ ~isPaused'

\* C34: no request starts while the upload is paused or cancelled; after its
\* retry delay a failed chunk is requested again at the same index, unless the
\* upload has been paused or cancelled meanwhile; no chunk below the current
\* index is without a successful request and without a call working on it;
\* and Resume continues with the first chunk not yet uploaded successfully.
C34_RetrySameChunkNoSkip ==
    /\ [][\A c \in 1..MaxClicks :
            FetchStarts(c) => ~isPaused' /\ ~isCancelled']_vars
    /\ [][\A c \in 1..MaxClicks :
            RetryStep(c) =>
               \/ (isPaused \/ isCancelled) /\ chains'[c] = Ended
               \/ chains'[c] = [chains[c] EXCEPT !.pc = "fetching"]]_vars
    /\ [](successes # <<>> =>
            \A i \in 1..Len(chunks) :
                (i <= currentChunkIndex /\ successes[i] = 0) =>
                   \E c \in Active(chains) : chains[c].idx = i - 1)
    /\ [][\A c \in 1..MaxClicks :
            (ResumeStep /\ FetchStarts(c)) =>
               /\ \A i \in 1..chains'[c].idx : successes[i] >= 1
               /\ successes[chains'[c].idx + 1] = 0]_vars

\* ------------------------------------------------------------ GoIosWrapper
\* C35: at most one tunnel daemon that the wrapper spawned is running:
\* operations that need the tunnel never spawn a second one unless stopTunnel
\* has killed the first.
C35_OneTunnelProcess ==
    Cardinality({i \in 1..Len(tunnels) : tunnels[i] = "running"}) <= 1

====
